---- MODULE Spec2Model ----
(***************************************************************************)
(* Authenticated API access layer of portfolio-manager-ui:                 *)
(*   - the transport/codec layer (apiClient, key casing), lines 46-156 of  *)
(*     src/src/api/market-data.api.ts, and                                 *)
(*   - the session lifecycle (AuthProvider: restoreSession, signIn,        *)
(*     signUp, signOut), lines 229-354 of src/src/router.tsx.              *)
(*                                                                         *)
(* A successful answer carries the payload the wire protocol documents for *)
(* its endpoint (apiClient validates no shape), enveloped or bare; besides *)
(* it every endpoint can fail, answer 204 or answer a JSON null.           *)
(*                                                                         *)
(* JavaScript values are tagged records; object keys are sequences of      *)
(* one-character strings so that the key-casing regular expressions can be *)
(* computed character by character.  localStorage values and tokens are    *)
(* TLA+ strings wrapped in Str.                                            *)
(***************************************************************************)
EXTENDS Integers, Sequences, FiniteSets, TLC

(***************************************************************************)
(* Bounds of the model.                                                    *)
(***************************************************************************)
\* how many distinct token pairs the server can issue
NumTokens == 1
\* how many distinct identities {id, email} the server knows
NumUsers == 1
\* longest key string handed to the key conversions
MaxKeyLen == 2
\* how many apiClient invocations run side by side
MaxCalls == 2

(***************************************************************************)
(* JavaScript values.                                                      *)
(***************************************************************************)
Undefined == [t |-> "undefined"]
Null == [t |-> "null"]
Str(s) == [t |-> "str", v |-> s]
Bool(b) == [t |-> "bool", v |-> b]
\* a plain object: its entries <<key, value>> in insertion order
Obj(es) == [t |-> "obj", e |-> es]
Arr(es) == [t |-> "arr", e |-> es]
\* a Date
DateValue(iso) == [t |-> "date", v |-> iso]
\* an object that is not plain (a class instance, a Map): its class and its
\* own enumerable properties, which are what Object.entries lists
Instance(cls, es) == [t |-> "instance", cls |-> cls, e |-> es]
\* obj !== null && typeof obj === "object" && !(obj instanceof Date),
\* for a value that is not an array
IsWalkedObject(obj) == obj.t \in {"obj", "instance"}

\* !v is false
Truthy(v) ==
  CASE v.t = "undefined" -> FALSE
    [] v.t = "null" -> FALSE
    [] v.t = "str" -> v.v # ""
    [] v.t = "bool" -> v.v
    [] OTHER -> TRUE

\* a, with no fallback
OrElse_noFallback(a, b) == a
\* a || b
OrElse(a, b) == IF Truthy(a) THEN a ELSE b

\* reading a property of v throws a TypeError
Throws(v) == v.t \in {"undefined", "null"}

\* v[k] for a value whose property read does not throw
Get(v, k) ==
  IF v.t = "obj" /\ \E i \in 1..Len(v.e) : v.e[i][1] = k
  THEN v.e[CHOOSE i \in 1..Len(v.e) : v.e[i][1] = k][2]
  ELSE Undefined

\* v?.[k]
OptGet(v, k) == IF Throws(v) THEN Undefined ELSE Get(v, k)

\* String(v), the coercion localStorage.setItem applies to its value
StringOf(v) ==
  CASE v.t = "str" -> v.v
    [] v.t = "undefined" -> "undefined"
    [] v.t = "null" -> "null"
    [] v.t = "bool" -> IF v.v THEN "true" ELSE "false"
    [] v.t = "obj" -> "[object Object]"

(***************************************************************************)
(* Key casing (market-data.api.ts, snakeToCamel .. keysToSnake).           *)
(***************************************************************************)
LowerCase == <<"a","b","c","d","e","f","g","h","i","j","k","l","m",
               "n","o","p","q","r","s","t","u","v","w","x","y","z">>
UpperCase == <<"A","B","C","D","E","F","G","H","I","J","K","L","M",
               "N","O","P","Q","R","S","T","U","V","W","X","Y","Z">>

IsLower(c) == \E i \in 1..Len(LowerCase) : LowerCase[i] = c
IsUpper(c) == \E i \in 1..Len(UpperCase) : UpperCase[i] = c
toUpperCase(c) ==
  IF IsLower(c) THEN UpperCase[CHOOSE i \in 1..Len(LowerCase) : LowerCase[i] = c] ELSE c
toLowerCase(c) ==
  IF IsUpper(c) THEN LowerCase[CHOOSE i \in 1..Len(UpperCase) : UpperCase[i] = c] ELSE c

\* /_(.)/g: the character after an underscore is taken whatever it is
RECURSIVE snakeToCamel_anyChar(_)
snakeToCamel_anyChar(s) ==
  IF s = <<>> THEN <<>>
  ELSE IF Len(s) >= 2 /\ s[1] = "_"
       THEN <<toUpperCase(s[2])>> \o snakeToCamel_anyChar(SubSeq(s, 3, Len(s)))
       ELSE <<s[1]>> \o snakeToCamel_anyChar(Tail(s))

\* s.replace(/_([a-z])/g, (_, c) => c.toUpperCase())
RECURSIVE snakeToCamel(_)
snakeToCamel(s) ==
  IF s = <<>> THEN <<>>
  ELSE IF Len(s) >= 2 /\ s[1] = "_" /\ IsLower(s[2])
       THEN <<toUpperCase(s[2])>> \o snakeToCamel(SubSeq(s, 3, Len(s)))
       ELSE <<s[1]>> \o snakeToCamel(Tail(s))

\* `_${c}`: the letter keeps its case
RECURSIVE camelToSnake_keepsCase(_)
camelToSnake_keepsCase(s) ==
  IF s = <<>> THEN <<>>
  ELSE IF IsUpper(s[1])
       THEN <<"_", s[1]>> \o camelToSnake_keepsCase(Tail(s))
       ELSE <<s[1]>> \o camelToSnake_keepsCase(Tail(s))

\* s.replace(/[A-Z]/g, (c) => `_${c.toLowerCase()}`)
RECURSIVE camelToSnake(_)
camelToSnake(s) ==
  IF s = <<>> THEN <<>>
  ELSE IF IsUpper(s[1])
       THEN <<"_", toLowerCase(s[1])>> \o camelToSnake(Tail(s))
       ELSE <<s[1]>> \o camelToSnake(Tail(s))

\* Object.fromEntries: a repeated key keeps its first position and takes
\* the last value
RECURSIVE fromEntries(_)
fromEntries(es) ==
  IF es = <<>> THEN <<>>
  ELSE LET init == fromEntries(SubSeq(es, 1, Len(es) - 1))
           last == es[Len(es)]
       IN IF \E i \in 1..Len(init) : init[i][1] = last[1]
          THEN [i \in 1..Len(init) |->
                  IF init[i][1] = last[1] THEN last ELSE init[i]]
          ELSE Append(init, last)

RECURSIVE keysToCamel(_)
keysToCamel(obj) ==
  IF obj.t = "arr" THEN Arr([i \in 1..Len(obj.e) |-> keysToCamel(obj.e[i])])
  ELSE IF IsWalkedObject(obj)
       THEN Obj(fromEntries([i \in 1..Len(obj.e) |->
                  <<snakeToCamel(obj.e[i][1]), keysToCamel(obj.e[i][2])>>]))
       ELSE obj

RECURSIVE keysToSnake(_)
keysToSnake(obj) ==
  IF obj.t = "arr" THEN Arr([i \in 1..Len(obj.e) |-> keysToSnake(obj.e[i])])
  ELSE IF IsWalkedObject(obj)
       THEN Obj(fromEntries([i \in 1..Len(obj.e) |->
                  <<camelToSnake(obj.e[i][1]), keysToSnake(obj.e[i][2])>>]))
       ELSE obj

(***************************************************************************)
(* Property names used by the session code and the wire protocol.          *)
(***************************************************************************)
K_id == <<"i","d">>
K_email == <<"e","m","a","i","l">>
K_password == <<"p","a","s","s","w","o","r","d">>
K_user == <<"u","s","e","r">>
K_data == <<"d","a","t","a">>
K_success == <<"s","u","c","c","e","s","s">>
K_error == <<"e","r","r","o","r">>
K_code == <<"c","o","d","e">>
K_message == <<"m","e","s","s","a","g","e">>
K_access_token == <<"a","c","c","e","s","s","_","t","o","k","e","n">>
K_refresh_token == <<"r","e","f","r","e","s","h","_","t","o","k","e","n">>
K_refreshToken == <<"r","e","f","r","e","s","h","T","o","k","e","n">>
K_display_name == <<"d","i","s","p","l","a","y","_","n","a","m","e">>
K_base_currency == <<"b","a","s","e","_","c","u","r","r","e","n","c","y">>

(***************************************************************************)
(* The server side of the wire protocol: what a fetch can come back with.  *)
(***************************************************************************)
AccessPool == <<"A1", "A2", "A3", "A4">>
RefreshPool == <<"R1", "R2", "R3", "R4">>
IdPool == <<"u1", "u2", "u3", "u4">>
EmailPool == <<"a@b.com", "c@d.com", "e@f.com", "g@h.com">>

ProfileEndpoint == "/api/auth/profile"
RefreshEndpoint == "/api/auth/refresh"
LoginEndpoint == "/api/auth/login"
RegisterEndpoint == "/api/auth/register"
LogoutEndpoint == "/api/auth/logout"
PortfoliosEndpoint == "/api/portfolios"

\* fetch() rejected: the call never reached a server
FetchFailed == [kind |-> "failed"]
\* a response whose body parses as JSON
Http(status, statusText, json) ==
  [kind |-> "http", status |-> status, statusText |-> statusText,
   parses |-> TRUE, json |-> json]
\* a response whose body is not JSON (response.json() rejects)
HttpNoJson(status, statusText) ==
  [kind |-> "http", status |-> status, statusText |-> statusText,
   parses |-> FALSE, json |-> Undefined]
Pending == [kind |-> "pending"]

Envelope(payload) == Obj(<< <<K_success, Bool(TRUE)>>, <<K_data, payload>> >>)
\* an endpoint answers with the envelope or with the bare payload
Success(payload) ==
  {Http(200, "OK", Envelope(payload)), Http(200, "OK", payload)}

TokenPair(j) ==
  << <<K_access_token, Str(AccessPool[j])>>,
     <<K_refresh_token, Str(RefreshPool[j])>> >>
Identity(i) == Obj(<< <<K_id, Str(IdPool[i])>>, <<K_email, Str(EmailPool[i])>> >>)
ProfileBody(i) ==
  Obj(<< <<K_id, Str(IdPool[i])>>, <<K_display_name, Null>> >>)
RefreshBody(j) == Obj(TokenPair(j))
PortfoliosBody ==
  Arr(<< Obj(<< <<K_id, Str("p1")>>, <<K_base_currency, Str("KWD")>> >>) >>)
LoginBody(i, j) == Obj(TokenPair(j) \o << <<K_user, Identity(i)>> >>)

DeclaredError(code, message) ==
  Obj(<< <<K_error, Obj(<< <<K_code, Str(code)>>, <<K_message, Str(message)>> >>)>> >>)

\* failures and malformed answers any endpoint can produce
Failures ==
  { FetchFailed,
    Http(401, "Unauthorized", DeclaredError("UNAUTHORIZED", "Token expired")),
    HttpNoJson(500, "Internal Server Error"),
    Http(200, "OK", Null),
    HttpNoJson(204, "No Content") }

\* what the exchange req can come back with: a failure, or the payload the
\* wire protocol documents for the endpoint (login and register answer
\* with the identity of the email they were sent)
Responses(req) ==
  Failures \cup
  CASE req.endpoint = ProfileEndpoint ->
         UNION {Success(ProfileBody(i)) : i \in 1..NumUsers}
    [] req.endpoint = RefreshEndpoint ->
         UNION {Success(RefreshBody(j)) : j \in 1..NumTokens}
    [] req.endpoint \in {LoginEndpoint, RegisterEndpoint} ->
         UNION {Success(LoginBody(i, j)) :
                  i \in {n \in 1..NumUsers : Str(EmailPool[n]) = Get(req.body, K_email)},
                  j \in 1..NumTokens}
    [] req.endpoint = LogoutEndpoint -> Success(Obj(<<>>))
    [] req.endpoint = PortfoliosEndpoint -> Success(PortfoliosBody)

(***************************************************************************)
(* Transport layer (market-data.api.ts, ApiError .. api).                  *)
(***************************************************************************)
ApiError(status, code, message) ==
  [name |-> "ApiError", status |-> status, code |-> code, message |-> message]
TypeError == [name |-> "TypeError"]
SyntaxError == [name |-> "SyntaxError"]

\* the two ways an async function settles
Resolved(v) == [ok |-> TRUE, value |-> v]
Rejected(e) == [ok |-> FALSE, err |-> e]

\* localStorage: each key holds a string or is absent (getItem gives null)
StorageKeys == {"access_token", "refresh_token", "user_email"}
getItem(st, k) == st[k]
setItem(st, k, v) == [st EXCEPT ![k] = Str(StringOf(v))]
removeItem(st, k) == [st EXCEPT ![k] = Null]

Bearer(token) == [t |-> "bearer", v |-> token]
\* `Bearer ${token}` built without looking whether a token is stored
getAuthHeaders_unguarded(st) ==
  Bearer(StringOf(getItem(st, "access_token")))
\* the Authorization header, Undefined when none is attached
getAuthHeaders(st) ==
  LET token == getItem(st, "access_token")
  IN IF ~Truthy(token) THEN Undefined ELSE Bearer(token.v)

\* the HTTP exchange apiClient starts: what is put on the wire
Request(owner, endpoint, method, body, st) ==
  [owner |-> owner, endpoint |-> endpoint, method |-> method,
   contentType |-> "application/json",
   authorization |-> getAuthHeaders(st),
   body |-> IF Truthy(body) THEN keysToSnake(body) ELSE Undefined,
   resp |-> Pending]

responseOk(resp) == resp.status \in 200..299

\* the body is parsed before the 204 check
apiClient_parsesBefore204(resp) ==
  IF resp.kind = "failed"
  THEN Rejected(ApiError(0, Str("NETWORK_ERROR"), Str("Unable to connect to server")))
  ELSE IF ~responseOk(resp)
  THEN LET errorBody == IF resp.parses THEN resp.json ELSE Obj(<<>>)
       IN IF Throws(errorBody) THEN Rejected(TypeError)
          ELSE Rejected(ApiError(resp.status,
                   OrElse(OptGet(Get(errorBody, K_error), K_code), Str("UNKNOWN")),
                   OrElse(OptGet(Get(errorBody, K_error), K_message), Str(resp.statusText))))
  ELSE IF ~resp.parses THEN Rejected(SyntaxError)
  ELSE IF resp.status = 204 THEN Resolved(Undefined)
  ELSE LET json == resp.json
       IN IF Throws(json) THEN Rejected(TypeError)
          ELSE LET data == IF Get(json, K_data) # Undefined THEN Get(json, K_data) ELSE json
               IN Resolved(keysToCamel(data))

\* no try/catch around fetch: its rejection escapes as it is
apiClient_uncaughtFetch(resp) ==
  IF resp.kind = "failed"
  THEN Rejected(TypeError)
  ELSE IF ~responseOk(resp)
  THEN LET errorBody == IF resp.parses THEN resp.json ELSE Obj(<<>>)
       IN IF Throws(errorBody) THEN Rejected(TypeError)
          ELSE Rejected(ApiError(resp.status,
                   OrElse(OptGet(Get(errorBody, K_error), K_code), Str("UNKNOWN")),
                   OrElse(OptGet(Get(errorBody, K_error), K_message), Str(resp.statusText))))
  ELSE IF resp.status = 204 THEN Resolved(Undefined)
  ELSE IF ~resp.parses THEN Rejected(SyntaxError)
  ELSE LET json == resp.json
       IN IF Throws(json) THEN Rejected(TypeError)
          ELSE LET data == IF Get(json, K_data) # Undefined THEN Get(json, K_data) ELSE json
               IN Resolved(keysToCamel(data))

\* how apiClient settles once the exchange has come back with resp
apiClient(resp) ==
  IF resp.kind = "failed"
  THEN Rejected(ApiError(0, Str("NETWORK_ERROR"), Str("Unable to connect to server")))
  ELSE IF ~responseOk(resp)
  THEN LET errorBody == IF resp.parses THEN resp.json ELSE Obj(<<>>)
       IN IF Throws(errorBody) THEN Rejected(TypeError)
          ELSE Rejected(ApiError(resp.status,
                   OrElse(OptGet(Get(errorBody, K_error), K_code), Str("UNKNOWN")),
                   OrElse(OptGet(Get(errorBody, K_error), K_message), Str(resp.statusText))))
  ELSE IF resp.status = 204 THEN Resolved(Undefined)
  ELSE IF ~resp.parses THEN Rejected(SyntaxError)
  ELSE LET json == resp.json
       IN IF Throws(json) THEN Rejected(TypeError)
          ELSE LET data == IF Get(json, K_data) # Undefined THEN Get(json, K_data) ELSE json
               IN Resolved(keysToCamel(data))

(***************************************************************************)
(* Session lifecycle (router.tsx, AuthProvider).                           *)
(***************************************************************************)
VARIABLES
  storage,      \* localStorage: the Credential Record
  user,         \* useState: AuthUser | null
  loading,      \* useState: boolean
  cancelled,    \* the effect's flag, set by its cleanup
  cancelledAt,  \* where restoreSession stood when the cleanup ran
  rs,           \* where restoreSession stands
  email,        \* restoreSession's local const email
  net,          \* the HTTP exchanges restoreSession has started, in order
  op,           \* the latest signIn / signUp / signOut / resource call
  api,          \* one apiClient invocation taken on its own
  codec,        \* a value taken through keysToCamel / keysToSnake
  calls         \* apiClient invocations running side by side, and the wire

vars == <<storage, user, loading, cancelled, cancelledAt, rs, email, net, op,
          api, codec, calls>>

\* forgets the refresh token
clearAuth_keepsRefreshToken(st) ==
  removeItem(removeItem(st, "access_token"), "user_email")

\* forgets the access token
clearAuth_keepsAccessToken(st) ==
  removeItem(removeItem(st, "refresh_token"), "user_email")

\* forgets the cached email
clearAuth_keepsEmail(st) ==
  removeItem(removeItem(st, "access_token"), "refresh_token")

clearAuth(st) ==
  removeItem(removeItem(removeItem(st, "access_token"), "refresh_token"), "user_email")

\* setUser(u) without looking at the flag
setUserUnlessCancelled_unguarded(c, old, u) == u
\* if (!cancelled) setUser(u)
setUserUnlessCancelled(c, old, u) == IF ~c THEN u ELSE old
\* no finally block
finallyLoading_missing(c, old) == old
\* finally { if (!cancelled) setLoading(false) }
finallyLoading(c, old) == IF ~c THEN FALSE ELSE old

\* any ApiError counts as an expired token
IsAuthFailure_anyApiError(err) == err.name = "ApiError"
\* err instanceof ApiError && err.status === 401
IsAuthFailure(err) == err.name = "ApiError" /\ err.status = 401

\* { id: profile.id, email }
AuthUser(id, em) == Obj(<< <<K_id, id>>, <<K_email, em>> >>)

\* the exchange restoreSession is waiting for comes back with resp
Settle(exchanges, resp) == [exchanges EXCEPT ![Len(exchanges)].resp = resp]

\* the Credential Record found at page load: each key absent or a string
InitialRecords ==
  { [k \in StorageKeys |->
       CASE k = "access_token" -> a [] k = "refresh_token" -> r [] OTHER -> e] :
      a \in {Null, Str("A0")},
      r \in {Null, Str("R0")},
      e \in {Null, Str("z@b.com")} }

\* apiClient not invoked on its own; no value under conversion
NoApi == [phase |-> "idle", call |-> Undefined, result |-> Undefined]
NoCodec == [x |-> Undefined, y |-> Undefined, path |-> <<>>]
\* no invocation running; nothing on the wire
NoCalls == [inv |-> <<>>, wire |-> <<>>]

NoOp == [name |-> "none", state |-> "idle", call |-> Undefined, err |-> Undefined]

Init ==
  /\ storage \in InitialRecords
  /\ user = Null
  /\ loading = TRUE
  /\ cancelled = FALSE
  /\ cancelledAt = "never"
  /\ rs = "start"
  /\ email = Undefined
  /\ net = <<>>
  /\ op = NoOp
  /\ api = NoApi
  /\ calls = NoCalls
  /\ codec = NoCodec

\* the refresh token decides whether a session is stored
RestoreStart_checksRefreshToken ==
  /\ rs = "start"
  /\ LET token == getItem(storage, "refresh_token")
     IN IF ~Truthy(token)
        THEN /\ loading' = FALSE
             /\ rs' = "done"
             /\ UNCHANGED <<email, net>>
        ELSE /\ email' = OrElse(getItem(storage, "user_email"), Str(""))
             /\ net' = Append(net, Request("restore", ProfileEndpoint, "GET", Undefined, storage))
             /\ rs' = "profile1"
             /\ UNCHANGED loading
  /\ UNCHANGED <<storage, user, cancelled, cancelledAt, op, api, codec, calls>>

\* restoreSession up to its first await (router.tsx 257-269)
RestoreStart ==
  /\ rs = "start"
  /\ LET token == getItem(storage, "access_token")
     IN IF ~Truthy(token)
        THEN /\ loading' = FALSE
             /\ rs' = "done"
             /\ UNCHANGED <<email, net>>
        ELSE /\ email' = OrElse(getItem(storage, "user_email"), Str(""))
             /\ net' = Append(net, Request("restore", ProfileEndpoint, "GET", Undefined, storage))
             /\ rs' = "profile1"
             /\ UNCHANGED loading
  /\ UNCHANGED <<storage, user, cancelled, cancelledAt, op, api, codec, calls>>

\* the first profile fetch settles (router.tsx 267-302)
RestoreProfileSettled ==
  /\ rs = "profile1"
  /\ \E resp \in Responses(net[Len(net)]) :
       LET r == apiClient(resp)
           profile == r.value
           refreshToken == getItem(storage, "refresh_token")
       IN IF r.ok /\ (cancelled \/ ~Throws(profile))
          THEN \* line 270
               /\ user' = setUserUnlessCancelled(cancelled, user, AuthUser(Get(profile, K_id), email))
               /\ loading' = finallyLoading(cancelled, loading)
               /\ net' = Settle(net, resp)
               /\ rs' = "done"
               /\ UNCHANGED storage
          ELSE IF ~r.ok /\ IsAuthFailure(r.err)
          THEN IF Truthy(refreshToken)
               THEN \* lines 277-280
                    /\ net' = Append(Settle(net, resp),
                                Request("restore", RefreshEndpoint, "POST",
                                        Obj(<< <<K_refreshToken, refreshToken>> >>), storage))
                    /\ rs' = "refresh"
                    /\ UNCHANGED <<storage, user, loading>>
               ELSE \* line 292
                    /\ storage' = clearAuth(storage)
                    /\ loading' = finallyLoading(cancelled, loading)
                    /\ net' = Settle(net, resp)
                    /\ rs' = "done"
                    /\ UNCHANGED user
          ELSE \* line 298: any other error, a TypeError on profile.id included
               /\ user' = setUserUnlessCancelled(cancelled, user, AuthUser(Str("unknown"), email))
               /\ loading' = finallyLoading(cancelled, loading)
               /\ net' = Settle(net, resp)
               /\ rs' = "done"
               /\ UNCHANGED storage
  /\ UNCHANGED <<cancelled, cancelledAt, email, op, api, codec, calls>>

\* the refresh call settles (router.tsx 277-290)
RestoreRefreshSettled ==
  /\ rs = "refresh"
  /\ \E resp \in Responses(net[Len(net)]) :
       LET r == apiClient(resp)
           data == r.value
       IN IF r.ok /\ ~Throws(data)
          THEN LET st1 == setItem(storage, "access_token", Get(data, K_access_token))
                   st2 == setItem(st1, "refresh_token", Get(data, K_refresh_token))
               IN /\ storage' = st2
                  /\ net' = Append(Settle(net, resp),
                              Request("restore", ProfileEndpoint, "GET", Undefined, st2))
                  /\ rs' = "profile2"
                  /\ UNCHANGED loading
          ELSE /\ storage' = clearAuth(storage)
               /\ loading' = finallyLoading(cancelled, loading)
               /\ net' = Settle(net, resp)
               /\ rs' = "done"
  /\ UNCHANGED <<user, cancelled, cancelledAt, email, op, api, codec, calls>>

\* the retry handled like the first fetch: only a 401 clears the record
retryEffects_keepsOnOtherErrors(r, c, st, u, em) ==
  IF r.ok /\ (c \/ ~Throws(r.value))
  THEN [storage |-> st,
        user |-> setUserUnlessCancelled(c, u, AuthUser(Get(r.value, K_id), em))]
  ELSE IF ~r.ok /\ IsAuthFailure(r.err)
  THEN [storage |-> clearAuth(st), user |-> u]
  ELSE [storage |-> st, user |-> setUserUnlessCancelled(c, u, AuthUser(Str("unknown"), em))]

\* what the inner try/catch does once the retried profile fetch has settled
\* with r (router.tsx 283-290): the storage and the user
retryEffects(r, c, st, u, em) ==
  IF r.ok /\ (c \/ ~Throws(r.value))
  THEN [storage |-> st,
        user |-> setUserUnlessCancelled(c, u, AuthUser(Get(r.value, K_id), em))]
  ELSE [storage |-> clearAuth(st), user |-> u]

\* the retried profile fetch settles (router.tsx 283-302)
RestoreRetrySettled ==
  /\ rs = "profile2"
  /\ \E resp \in Responses(net[Len(net)]) :
       LET eff == retryEffects(apiClient(resp), cancelled, storage, user, email)
       IN /\ storage' = eff.storage
          /\ user' = eff.user
          /\ loading' = finallyLoading(cancelled, loading)
          /\ net' = Settle(net, resp)
          /\ rs' = "done"
  /\ UNCHANGED <<cancelled, cancelledAt, email, op, api, codec, calls>>

\* the effect's cleanup (router.tsx 306); it exists once the effect has run
Cancel ==
  /\ rs # "start"
  /\ ~cancelled
  /\ cancelled' = TRUE
  /\ cancelledAt' = rs
  /\ UNCHANGED <<storage, user, loading, rs, email, net, op, api, codec, calls>>

\* a session operation may be called: the provider is mounted, restoration
\* is over and no other session operation is in flight
MayCall == rs = "done" /\ ~cancelled /\ op.state # "pending"

Call(name, endpoint, body) ==
  [name |-> name, state |-> "pending",
   call |-> Request(name, endpoint, "POST", body, storage), err |-> Undefined]

Credentials(em, pw) == Obj(<< <<K_email, Str(em)>>, <<K_password, Str(pw)>> >>)

\* signIn up to its await (router.tsx 310-314)
SignInCall ==
  /\ MayCall
  /\ \E i \in 1..NumUsers :
       op' = Call("signIn", LoginEndpoint, Credentials(EmailPool[i], "secret"))
  /\ UNCHANGED <<storage, user, loading, cancelled, cancelledAt, rs, email, net, api, codec, calls>>

\* signUp up to its await (router.tsx 322-326)
SignUpCall ==
  /\ MayCall
  /\ \E i \in 1..NumUsers :
       op' = Call("signUp", RegisterEndpoint, Credentials(EmailPool[i], "secret"))
  /\ UNCHANGED <<storage, user, loading, cancelled, cancelledAt, rs, email, net, api, codec, calls>>

\* clears locally first, then tells the server
SignOutCall_clearsFirst ==
  /\ MayCall
  /\ storage' = clearAuth(storage)
  /\ user' = Null
  /\ op' = [name |-> "signOut", state |-> "pending",
            call |-> Request("signOut", LogoutEndpoint, "POST", Undefined, clearAuth(storage)),
            err |-> Undefined]
  /\ UNCHANGED <<loading, cancelled, cancelledAt, rs, email, net, api, codec, calls>>

\* signOut up to its await (router.tsx 334-335)
SignOutCall ==
  /\ MayCall
  /\ op' = Call("signOut", LogoutEndpoint, Undefined)
  /\ UNCHANGED <<storage, user, loading, cancelled, cancelledAt, rs, email, net, api, codec, calls>>

\* a failed login logs the user out
signInEffects_clearsOnFailure(r, st, u) ==
  IF ~r.ok THEN [storage |-> clearAuth(st), user |-> Null, settles |-> r]
  ELSE IF Throws(r.value)
  THEN [storage |-> st, user |-> u, settles |-> Rejected(TypeError)]
  ELSE LET data == r.value
           st1 == setItem(st, "access_token", Get(data, K_access_token))
           st2 == setItem(st1, "refresh_token", Get(data, K_refresh_token))
       IN IF Throws(Get(data, K_user))
          THEN [storage |-> st2, user |-> u, settles |-> Rejected(TypeError)]
          ELSE [storage |-> setItem(st2, "user_email", Get(Get(data, K_user), K_email)),
                user |-> Get(data, K_user),
                settles |-> Resolved(Undefined)]

\* an ordinary resource call, portfoliosApi.list(), up to its await
ResourceCall ==
  /\ MayCall
  /\ op' = [name |-> "resource", state |-> "pending",
            call |-> Request("resource", PortfoliosEndpoint, "GET", Undefined, storage),
            err |-> Undefined]
  /\ UNCHANGED <<storage, user, loading, cancelled, cancelledAt, rs, email, net, api, codec, calls>>

\* what signIn does once its login call has settled with r (router.tsx 315-318):
\* the storage, the user and how signIn itself settles
signInEffects(r, st, u) ==
  IF ~r.ok THEN [storage |-> st, user |-> u, settles |-> r]
  ELSE IF Throws(r.value)
  THEN [storage |-> st, user |-> u, settles |-> Rejected(TypeError)]
  ELSE LET data == r.value
           st1 == setItem(st, "access_token", Get(data, K_access_token))
           st2 == setItem(st1, "refresh_token", Get(data, K_refresh_token))
       IN IF Throws(Get(data, K_user))
          THEN [storage |-> st2, user |-> u, settles |-> Rejected(TypeError)]
          ELSE [storage |-> setItem(st2, "user_email", Get(Get(data, K_user), K_email)),
                user |-> Get(data, K_user),
                settles |-> Resolved(Undefined)]

\* registration does not cache the email
signUpEffects_skipsEmail(r, st, u) ==
  IF ~r.ok THEN [storage |-> st, user |-> u, settles |-> r]
  ELSE IF Throws(r.value)
  THEN [storage |-> st, user |-> u, settles |-> Rejected(TypeError)]
  ELSE LET data == r.value
           st1 == setItem(st, "access_token", Get(data, K_access_token))
           st2 == setItem(st1, "refresh_token", Get(data, K_refresh_token))
       IN IF Throws(Get(data, K_user))
          THEN [storage |-> st2, user |-> u, settles |-> Rejected(TypeError)]
          ELSE [storage |-> st2,
                user |-> Get(data, K_user),
                settles |-> Resolved(Undefined)]

\* what signUp does once its register call has settled with r (router.tsx 327-330)
signUpEffects(r, st, u) ==
  IF ~r.ok THEN [storage |-> st, user |-> u, settles |-> r]
  ELSE IF Throws(r.value)
  THEN [storage |-> st, user |-> u, settles |-> Rejected(TypeError)]
  ELSE LET data == r.value
           st1 == setItem(st, "access_token", Get(data, K_access_token))
           st2 == setItem(st1, "refresh_token", Get(data, K_refresh_token))
       IN IF Throws(Get(data, K_user))
          THEN [storage |-> st2, user |-> u, settles |-> Rejected(TypeError)]
          ELSE [storage |-> setItem(st2, "user_email", Get(Get(data, K_user), K_email)),
                user |-> Get(data, K_user),
                settles |-> Resolved(Undefined)]

\* no try/catch around the logout call
signOutEffects_uncaught(r, st, u) ==
  IF r.ok
  THEN [storage |-> clearAuth(st), user |-> Null, settles |-> Resolved(Undefined)]
  ELSE [storage |-> st, user |-> u, settles |-> r]

\* what signOut does once its logout call has settled with r (router.tsx 336-340)
signOutEffects(r, st, u) ==
  [storage |-> clearAuth(st), user |-> Null, settles |-> Resolved(Undefined)]

\* the session operation in flight finishes with the effects eff
Finish(resp, eff) ==
  /\ storage' = eff.storage
  /\ user' = eff.user
  /\ op' = [op EXCEPT !.state = IF eff.settles.ok THEN "resolved" ELSE "rejected",
                      !.call.resp = resp,
                      !.err = IF eff.settles.ok THEN Undefined ELSE eff.settles.err]
  /\ UNCHANGED <<loading, cancelled, cancelledAt, rs, email, net, api, codec, calls>>

SignInSettled ==
  /\ op.name = "signIn" /\ op.state = "pending"
  /\ \E resp \in Responses(op.call) :
       Finish(resp, signInEffects(apiClient(resp), storage, user))

SignUpSettled ==
  /\ op.name = "signUp" /\ op.state = "pending"
  /\ \E resp \in Responses(op.call) :
       Finish(resp, signUpEffects(apiClient(resp), storage, user))

SignOutSettled ==
  /\ op.name = "signOut" /\ op.state = "pending"
  /\ \E resp \in Responses(op.call) :
       Finish(resp, signOutEffects(apiClient(resp), storage, user))

\* a 401 on a resource call logs the user out
ResourceSettled_clearsOn401 ==
  /\ op.name = "resource" /\ op.state = "pending"
  /\ \E resp \in Responses(op.call) :
       LET r == apiClient(resp)
       IN IF ~r.ok /\ IsAuthFailure(r.err)
          THEN Finish(resp, [storage |-> clearAuth(storage), user |-> Null, settles |-> r])
          ELSE Finish(resp, [storage |-> storage, user |-> user, settles |-> r])

\* the resource call settles: its caller gets apiClient's outcome
ResourceSettled ==
  /\ op.name = "resource" /\ op.state = "pending"
  /\ \E resp \in Responses(op.call) :
       Finish(resp, [storage |-> storage, user |-> user, settles |-> apiClient(resp)])

Next ==
  \/ RestoreStart
  \/ RestoreProfileSettled
  \/ RestoreRefreshSettled
  \/ RestoreRetrySettled
  \/ Cancel
  \/ SignInCall
  \/ SignUpCall
  \/ SignOutCall
  \/ SignInSettled
  \/ SignUpSettled
  \/ SignOutSettled
  \/ ResourceCall
  \/ ResourceSettled

Spec == Init /\ [][Next]_vars

\* the event loop runs every continuation that is ready, and every exchange
\* comes back (an absent response surfaces as a transport failure)
LiveSpec ==
  /\ Spec
  /\ WF_vars(RestoreStart)
  /\ WF_vars(RestoreProfileSettled)
  /\ WF_vars(RestoreRefreshSettled)
  /\ WF_vars(RestoreRetrySettled)
  /\ WF_vars(SignInSettled)
  /\ WF_vars(SignUpSettled)
  /\ WF_vars(SignOutSettled)
  /\ WF_vars(ResourceSettled)

(***************************************************************************)
(* signIn / signUp called while the startup restoration is still waiting   *)
(* for one of its network calls: the context hands out signIn and signUp   *)
(* from the first render, whatever loading is.                             *)
(***************************************************************************)
\* restoreSession is suspended at one of its awaits
RestoreInFlight == rs \in {"profile1", "refresh", "profile2"}

MayCallDuringRestore == RestoreInFlight /\ ~cancelled /\ op.state # "pending"

\* signIn up to its await, restoration in flight (router.tsx 310-314)
SignInDuringRestore ==
  /\ MayCallDuringRestore
  /\ \E i \in 1..NumUsers :
       op' = Call("signIn", LoginEndpoint, Credentials(EmailPool[i], "secret"))
  /\ UNCHANGED <<storage, user, loading, cancelled, cancelledAt, rs, email, net, api, codec, calls>>

\* signUp up to its await, restoration in flight (router.tsx 322-326)
SignUpDuringRestore ==
  /\ MayCallDuringRestore
  /\ \E i \in 1..NumUsers :
       op' = Call("signUp", RegisterEndpoint, Credentials(EmailPool[i], "secret"))
  /\ UNCHANGED <<storage, user, loading, cancelled, cancelledAt, rs, email, net, api, codec, calls>>

OverlapNext ==
  \/ RestoreStart
  \/ RestoreProfileSettled
  \/ RestoreRefreshSettled
  \/ RestoreRetrySettled
  \/ SignInDuringRestore
  \/ SignUpDuringRestore
  \/ SignInSettled
  \/ SignUpSettled

OverlapSpec == Init /\ [][OverlapNext]_vars

(***************************************************************************)
(* apiClient on its own (market-data.api.ts): one call through api.get,    *)
(* api.post, api.patch or api.delete, answered by any response a server or *)
(* the network can produce.                                                *)
(***************************************************************************)
K_baseCurrency == <<"b","a","s","e","C","u","r","r","e","n","c","y">>

StatusText(status) ==
  CASE status = 200 -> "OK"
    [] status = 204 -> "No Content"
    [] status = 401 -> "Unauthorized"
    [] status = 404 -> "Not Found"
    [] OTHER -> "Internal Server Error"

ErrorStatuses == {401, 404, 500}

\* JSON bodies an error response can carry
ErrorBodies ==
  { Null, Str("Bad Gateway"), Arr(<<>>), Obj(<<>>),
    Obj(<< <<K_error, Null>> >>),
    Obj(<< <<K_error, Obj(<<>>)>> >>),
    Obj(<< <<K_error, Obj(<< <<K_code, Str("NOT_FOUND")>> >>)>> >>),
    DeclaredError("NOT_FOUND", "No such portfolio") }

\* JSON bodies a 200 response can carry
SuccessBodies ==
  { Null, Obj(<<>>), PortfoliosBody, Envelope(PortfoliosBody), Envelope(Null) }

WireResponses ==
  {FetchFailed}
    \cup {Http(s, StatusText(s), b) : s \in ErrorStatuses, b \in ErrorBodies}
    \cup {HttpNoJson(s, StatusText(s)) : s \in ErrorStatuses}
    \cup {Http(200, StatusText(200), b) : b \in SuccessBodies}
    \cup {HttpNoJson(200, StatusText(200)),
          HttpNoJson(204, StatusText(204)),
          Http(204, StatusText(204), Envelope(PortfoliosBody))}

\* the bodies handed to api.post / api.patch
ApiBodies == {Undefined, Obj(<< <<K_baseCurrency, Str("KWD")>> >>)}

\* api.get / api.post / api.patch / api.delete up to the await of fetch
ApiRequest ==
  /\ api.phase # "pending"
  /\ \E method \in {"GET", "POST", "PATCH", "DELETE"}, body \in ApiBodies :
       /\ method \in {"GET", "DELETE"} => body = Undefined
       /\ api' = [phase |-> "pending",
                  call |-> Request("api", PortfoliosEndpoint, method, body, storage),
                  result |-> Undefined]
  /\ UNCHANGED <<storage, user, loading, cancelled, cancelledAt, rs, email, net, op, codec, calls>>

\* the transport layer drops the stored credentials when it sees a 401
ApiSettled_clearsOn401 ==
  /\ api.phase = "pending"
  /\ \E resp \in WireResponses :
       /\ api' = [phase |-> "settled",
                  call |-> [api.call EXCEPT !.resp = resp],
                  result |-> apiClient(resp)]
       /\ storage' = IF resp.kind = "http" /\ resp.status = 401
                     THEN clearAuth(storage) ELSE storage
  /\ UNCHANGED <<user, loading, cancelled, cancelledAt, rs, email, net, op, codec, calls>>

\* the exchange comes back and apiClient settles
ApiSettled ==
  /\ api.phase = "pending"
  /\ \E resp \in WireResponses :
       api' = [phase |-> "settled",
               call |-> [api.call EXCEPT !.resp = resp],
               result |-> apiClient(resp)]
  /\ UNCHANGED <<storage, user, loading, cancelled, cancelledAt, rs, email, net, op, codec, calls>>

ApiNext == ApiRequest \/ ApiSettled

ApiSpec == Init /\ [][ApiNext]_vars

(***************************************************************************)
(* Several invocations of apiClient for the same endpoint, side by side.   *)
(* calls.wire lists the HTTP exchanges fetch has started, calls.inv the    *)
(* invocations, each awaiting the exchange it started.                     *)
(***************************************************************************)
\* a pending request for the same endpoint is reused instead of fetched anew
ApiInvoke_sharesPending ==
  /\ Len(calls.inv) < MaxCalls
  /\ LET req == Request("api", PortfoliosEndpoint, "GET", Undefined, storage)
         same == {k \in 1..Len(calls.wire) : calls.wire[k] = req}
     IN IF same # {}
        THEN calls' = [calls EXCEPT
               !.inv = Append(@, [exchange |-> CHOOSE k \in same : TRUE,
                                  phase |-> "pending", result |-> Undefined])]
        ELSE calls' = [inv |-> Append(calls.inv,
                                 [exchange |-> Len(calls.wire) + 1,
                                  phase |-> "pending", result |-> Undefined]),
                       wire |-> Append(calls.wire, req)]
  /\ UNCHANGED <<storage, user, loading, cancelled, cancelledAt, rs, email, net, op, api, codec>>

\* api.get("/api/portfolios") up to its await: one fetch is started
ApiInvoke ==
  /\ Len(calls.inv) < MaxCalls
  /\ calls' = [inv |-> Append(calls.inv,
                          [exchange |-> Len(calls.wire) + 1,
                           phase |-> "pending", result |-> Undefined]),
               wire |-> Append(calls.wire,
                          Request("api", PortfoliosEndpoint, "GET", Undefined, storage))]
  /\ UNCHANGED <<storage, user, loading, cancelled, cancelledAt, rs, email, net, op, api, codec>>

\* an exchange comes back: the invocation awaiting it settles
ApiAnswer ==
  /\ \E k \in 1..Len(calls.wire) :
       /\ calls.wire[k].resp = Pending
       /\ \E resp \in Responses(calls.wire[k]) :
            calls' = [wire |-> [calls.wire EXCEPT ![k].resp = resp],
                      inv |-> [i \in 1..Len(calls.inv) |->
                                 IF calls.inv[i].exchange = k
                                 THEN [calls.inv[i] EXCEPT !.phase = "settled",
                                                           !.result = apiClient(resp)]
                                 ELSE calls.inv[i]]]
  /\ UNCHANGED <<storage, user, loading, cancelled, cancelledAt, rs, email, net, op, api, codec>>

ConcurrentNext == ApiInvoke \/ ApiAnswer

ConcurrentSpec == Init /\ [][ConcurrentNext]_vars

(***************************************************************************)
(* keysToCamel / keysToSnake on their own: a value is taken through up to  *)
(* two conversions, one call at a time.                                    *)
(***************************************************************************)
\* a lowercase letter, its uppercase form and the underscore give every
\* shape of key: leading, trailing and doubled underscores, and distinct
\* keys that collide after conversion ("_b" and "B")
KeyAlphabet == {"b", "B", "_"}
RECURSIVE KeysOfLen(_)
KeysOfLen(n) ==
  IF n = 0 THEN {<<>>}
  ELSE {<<c>> \o k : c \in KeyAlphabet, k \in KeysOfLen(n - 1)}
\* keys with a digit
DigitKeys == {<<"_","1">>, <<"b","1">>}
CodecKeys == UNION {KeysOfLen(n) : n \in 1..MaxKeyLen} \cup DigitKeys

\* scalar values, one per position of an object
ValuePool == <<Str("v1"), Bool(TRUE), Null, Str("v4")>>

\* the plain objects with n distinct keys drawn from keys
FlatObjects(n, keys) ==
  { Obj([i \in 1..n |-> <<ks[i], ValuePool[i]>>]) :
      ks \in {f \in [1..n -> keys] : \A i, j \in 1..n : f[i] = f[j] => i = j} }

\* keys that collide after conversion, and one that stands alone
CollidingKeys == {<<"_","b">>, <<"B">>, <<"_","_","b">>, <<"_","B">>, <<"b">>}

\* values that are neither plain objects nor arrays nor scalars, alone and
\* inside a plain object: a Date, a Map (no enumerable property of its
\* own), an instance of a class with one field
OpaqueInputs ==
  LET opaque == { DateValue("2024-01-01T00:00:00Z"),
                  Instance("Map", <<>>),
                  Instance("Money", << <<K_baseCurrency, Str("KWD")>> >>),
                  Instance("Money", << <<K_base_currency, Str("KWD")>> >>) }
  IN opaque \cup {Obj(<< <<K_display_name, v>> >>) : v \in opaque}

\* objects of no, one and two keys; objects of three keys among the
\* colliding ones; objects inside an array and inside an object
CodecInputs ==
  LET inner == FlatObjects(0, CodecKeys) \cup FlatObjects(1, CodecKeys)
  IN inner
       \cup FlatObjects(2, CodecKeys)
       \cup FlatObjects(3, CollidingKeys)
       \cup {Arr(<<o, Str("s")>>) : o \in inner}
       \cup {Obj(<< <<K_display_name, o>>, <<K_id, Arr(<<o>>)>> >>) : o \in inner}
       \cup {Null, Str("s")}
       \cup OpaqueInputs

CodecInit ==
  /\ storage = [k \in StorageKeys |-> Null]
  /\ user = Null
  /\ loading = TRUE
  /\ cancelled = FALSE
  /\ cancelledAt = "never"
  /\ rs = "start"
  /\ email = Undefined
  /\ net = <<>>
  /\ op = NoOp
  /\ api = NoApi
  /\ calls = NoCalls
  /\ codec \in {[x |-> v, y |-> v, path |-> <<>>] : v \in CodecInputs}

\* one call of keysToCamel on the current value
ApplyKeysToCamel ==
  /\ Len(codec.path) < 2
  /\ codec' = [codec EXCEPT !.y = keysToCamel(codec.y),
                            !.path = Append(codec.path, "camel")]
  /\ UNCHANGED <<storage, user, loading, cancelled, cancelledAt, rs, email, net, op, api, calls>>

\* one call of keysToSnake on the current value
ApplyKeysToSnake ==
  /\ Len(codec.path) < 2
  /\ codec' = [codec EXCEPT !.y = keysToSnake(codec.y),
                            !.path = Append(codec.path, "snake")]
  /\ UNCHANGED <<storage, user, loading, cancelled, cancelledAt, rs, email, net, op, api, calls>>

CodecNext == ApplyKeysToCamel \/ ApplyKeysToSnake

CodecSpec == CodecInit /\ [][CodecNext]_vars

(***************************************************************************)
(* Vocabulary of the properties, stated on what went over the wire.        *)
(***************************************************************************)
\* the Credential Record with none of its three keys
EmptyRecord == [k \in StorageKeys |-> Null]

\* the exchange came back with status 401
Is401(resp) == resp.kind = "http" /\ resp.status = 401

\* the call fails: no response, a status outside 200..299, or a success
\* status whose body cannot be decoded
Fails(resp) ==
  \/ resp.kind = "failed"
  \/ /\ resp.kind = "http"
     /\ \/ resp.status \notin 200..299
        \/ resp.status # 204 /\ (~resp.parses \/ resp.json = Null)

\* the profile endpoint answered with a profile
ProfileAnswers == UNION {Success(ProfileBody(i)) : i \in 1..NumUsers}

\* restoreSession has just returned: no session operation was called yet
RestorationEnded == rs = "done" /\ op = NoOp

\* the effect's cleanup did not run while restoreSession was running
NotCancelledInFlight == cancelledAt \in {"never", "done"}

\* email as restoreSession reads it: the stored user_email, "" if none
CachedEmail == IF storage["user_email"] = Null THEN Str("") ELSE storage["user_email"]

(***************************************************************************)
(* C1                                                                      *)
(***************************************************************************)
\* C1: restoration whose first profile fetch got 401, whose refresh call was
\* answered with the pair j and whose retried profile fetch succeeded ends
\* with user non-null, loading = FALSE and exactly the access and refresh
\* token of pair j in storage.
C1_RefreshedTokensStored ==
  \A j \in 1..NumTokens :
    ( /\ RestorationEnded /\ NotCancelledInFlight
      /\ Len(net) = 3
      /\ Is401(net[1].resp)
      /\ net[2].resp \in Success(RefreshBody(j))
      /\ net[3].resp \in ProfileAnswers )
    => /\ user # Null
       /\ loading = FALSE
       /\ storage["access_token"] = Str(AccessPool[j])
       /\ storage["refresh_token"] = Str(RefreshPool[j])

(***************************************************************************)
(* C2                                                                      *)
(***************************************************************************)
\* C2: once signIn's login call has been answered with the wire body
\* {access_token: A, refresh_token: R, user: {id, email}}, the record holds
\* access_token = A, refresh_token = R, user_email = email and user is the
\* returned identity.
C2_SignInStoresReturned ==
  \A i \in 1..NumUsers, j \in 1..NumTokens :
    ( /\ op.name = "signIn" /\ op.state # "pending"
      /\ op.call.resp \in Success(LoginBody(i, j)) )
    => /\ storage["access_token"] = Str(AccessPool[j])
       /\ storage["refresh_token"] = Str(RefreshPool[j])
       /\ storage["user_email"] = Str(EmailPool[i])
       /\ user = Identity(i)

C4_Case ==
  /\ rs = "profile1" /\ rs' # "profile1"
  /\ Fails(net'[1].resp) /\ ~Is401(net'[1].resp)

\* C4 as claimed: when the first profile fetch fails with anything but 401,
\* the three keys are left as they were, no refresh call is issued and
\* restoration ends with loading = FALSE and user = {id: "unknown", email:
\* the cached email}.
C4_Original ==
  [][ C4_Case =>
        /\ storage' = storage
        /\ rs' = "done" /\ Len(net') = 1
        /\ loading' = FALSE
        /\ user' = AuthUser(Str("unknown"), CachedEmail) ]_vars

\* C4 amended: the record is left as it was and no refresh call is issued;
\* restoration ends with loading = FALSE and user = {id: "unknown", email:
\* the cached email} unless it was cancelled while the fetch was in flight,
\* and then user and loading are left as they were.
C4_NonAuthFailureKeepsSession ==
  [][ C4_Case =>
        /\ storage' = storage
        /\ rs' = "done" /\ Len(net') = 1
        /\ IF cancelled
           THEN loading' = loading /\ user' = user
           ELSE loading' = FALSE /\ user' = AuthUser(Str("unknown"), CachedEmail) ]_vars

\* a network error on the first profile fetch kept the stored session
C4_Witness ==
  /\ RestorationEnded /\ ~cancelled
  /\ Len(net) = 1 /\ net[1].resp = FetchFailed
  /\ storage["access_token"] = Str("A0") /\ storage["refresh_token"] = Str("R0")
  /\ loading = FALSE
  /\ user = AuthUser(Str("unknown"), Str("z@b.com"))

(***************************************************************************)
(* C5                                                                      *)
(***************************************************************************)
C5_Case ==
  \/ /\ rs = "profile1" /\ rs' # "profile1"
     /\ Is401(net'[1].resp)
     /\ storage["refresh_token"] = Null
  \/ /\ rs = "refresh" /\ rs' # "refresh"
     /\ Is401(net[1].resp)
     /\ Fails(net'[2].resp)

\* C5 as claimed: first profile fetch 401 and no refresh token stored, or
\* the refresh call fails: the three keys are removed and restoration ends
\* with user = null and loading = FALSE.
C5_Original ==
  [][ C5_Case =>
        /\ storage' = EmptyRecord
        /\ rs' = "done"
        /\ user' = Null
        /\ loading' = FALSE ]_vars

\* C5 amended: the three keys are removed and restoration ends with
\* user = null, and with loading = FALSE unless it was cancelled while a
\* call was in flight (then loading is left as it was).
C5_AuthFailureClearsRecord ==
  [][ C5_Case =>
        /\ storage' = EmptyRecord
        /\ rs' = "done"
        /\ user' = Null
        /\ loading' = (IF cancelled THEN loading ELSE FALSE) ]_vars

\* the refresh call failed with a network error and the record was cleared
C5_Witness ==
  /\ RestorationEnded /\ ~cancelled
  /\ Len(net) = 2 /\ Is401(net[1].resp) /\ net[2].resp = FetchFailed
  /\ net[2].body = Obj(<< <<K_refresh_token, Str("R0")>> >>)
  /\ storage = EmptyRecord /\ user = Null /\ loading = FALSE

(***************************************************************************)
(* C6                                                                      *)
(***************************************************************************)
CallsTo(exchanges, endpoint) ==
  Cardinality({i \in 1..Len(exchanges) : exchanges[i].endpoint = endpoint})

\* C6: one restoration issues at most one refresh call and at most two
\* profile fetches; when the retried profile fetch fails for any reason the
\* record is cleared, user ends null and no further call is issued.
C6_OneRefreshTwoFetches ==
  [][ /\ CallsTo(net', RefreshEndpoint) <= 1
      /\ CallsTo(net', ProfileEndpoint) <= 2
      /\ (rs = "done" => net' = net)
      /\ (rs = "profile2" /\ rs' # "profile2" /\ Fails(net'[3].resp))
         => /\ storage' = EmptyRecord
            /\ user' = Null
            /\ rs' = "done" /\ Len(net') = 3 ]_vars

\* the retried fetch hit a network error after a successful refresh
C6_Witness ==
  /\ RestorationEnded
  /\ Len(net) = 3
  /\ net[2].resp \in Success(RefreshBody(1))
  /\ net[3].resp = FetchFailed
  /\ storage = EmptyRecord /\ user = Null

(***************************************************************************)
(* C7                                                                      *)
(***************************************************************************)
\* C7: once signOut has completed, whether its logout call succeeded or
\* failed, the record holds none of the three keys, user is null and
\* signOut has resolved.
C7_SignOutTerminal ==
  (op.name = "signOut" /\ op.state # "pending")
  => /\ storage = EmptyRecord
     /\ user = Null
     /\ op.state = "resolved"

\* a restored session signed out while the server answered 500
C7_Witness ==
  /\ op.name = "signOut" /\ op.state = "resolved"
  /\ op.call.resp = HttpNoJson(500, "Internal Server Error")
  /\ op.call.authorization = Bearer("A0")
  /\ storage = EmptyRecord /\ user = Null

(***************************************************************************)
(* C8                                                                      *)
(***************************************************************************)
\* C8: when the login or register call of signIn or signUp fails, signIn or
\* signUp rejects with that error and storage, user and loading keep the
\* values they had.
C8_FailedSignInChangesNothing ==
  [][ ( /\ op.name \in {"signIn", "signUp"}
        /\ op.state = "pending" /\ op'.state # "pending"
        /\ Fails(op'.call.resp) )
      => /\ storage' = storage
         /\ user' = user
         /\ loading' = loading
         /\ op'.state = "rejected"
         /\ op'.err = apiClient(op'.call.resp).err ]_vars

\* a signed-in user whose later signIn got 401 keeps the session
C8_Witness ==
  /\ op.name = "signIn" /\ op.state = "rejected"
  /\ Is401(op.call.resp)
  /\ op.err.name = "ApiError" /\ op.err.status = 401
  /\ user # Null /\ storage["access_token"] # Null

(***************************************************************************)
(* C9                                                                      *)
(***************************************************************************)
\* C9: once the cleanup has run while the first profile fetch was in
\* flight, no later step changes user or loading.
C9_CancelledRestorationIsSilent ==
  [][ cancelledAt = "profile1" => (user' = user /\ loading' = loading) ]_vars

\* cancelled during the first fetch; the refresh and the retry then succeeded
C9_Witness ==
  /\ cancelledAt = "profile1" /\ rs = "done"
  /\ Len(net) = 3 /\ net[3].resp \in ProfileAnswers
  /\ user = Null /\ loading = TRUE

(***************************************************************************)
(* C10                                                                     *)
(***************************************************************************)
\* C10 as claimed (its part a finite run refutes): every restoration that
\* has run to its end has set loading to FALSE.
C10_Original == rs = "done" => loading = FALSE

\* C10 amended: Session State starts as {user: null, loading: true}; every
\* restoration runs to its end and, unless it was cancelled while a call
\* was in flight, has then set loading to FALSE; loading never becomes TRUE
\* again, whatever signIn, signUp and signOut do.
C10_LoadingFalseOnce ==
  /\ (user = Null /\ loading = TRUE)
  /\ <>(rs = "done")
  /\ [](rs = "done" /\ NotCancelledInFlight => loading = FALSE)
  /\ [][ (loading = FALSE => loading' = FALSE)
         /\ (rs = "done" => loading' = loading) ]_vars

\* restoration ended through refresh and retry, and a signIn came after it
C10_Witness ==
  /\ rs = "done" /\ NotCancelledInFlight /\ loading = FALSE
  /\ Len(net) = 3
  /\ op.name = "signIn" /\ op.state = "resolved"

(***************************************************************************)
(* C11                                                                     *)
(***************************************************************************)
\* C11: when no access token is stored as restoration starts, whatever the
\* other two keys hold, restoration ends at once with user = null and
\* loading = FALSE, leaves the record as it was and never issues a call.
C11_NoTokenNoCalls ==
  [][ /\ (rs = "start" /\ rs' # "start" /\ storage["access_token"] = Null)
         => /\ rs' = "done"
            /\ user' = Null
            /\ loading' = FALSE
            /\ net' = <<>>
            /\ storage' = storage
      /\ (rs = "done" /\ net = <<>>) => net' = <<>> ]_vars

\* a record with a refresh token and an email but no access token
C11_Witness ==
  /\ RestorationEnded /\ net = <<>>
  /\ storage = [access_token |-> Null, refresh_token |-> Str("R0"),
                user_email |-> Str("z@b.com")]
  /\ user = Null /\ loading = FALSE

(***************************************************************************)
(* C12                                                                     *)
(***************************************************************************)
C12_Case(i) ==
  /\ rs = "profile1" /\ rs' # "profile1"
  /\ net'[1].resp \in Success(ProfileBody(i))

\* C12 as claimed: when the first profile fetch succeeds with identifier I,
\* restoration ends with loading = FALSE and user = {id: I, email: the
\* stored user_email or ""}, after exactly one call and with the record
\* unchanged.
C12_Original ==
  [][ \A i \in 1..NumUsers :
        C12_Case(i) =>
          /\ rs' = "done" /\ Len(net') = 1
          /\ storage' = storage
          /\ loading' = FALSE
          /\ user' = AuthUser(Str(IdPool[i]), CachedEmail) ]_vars

\* C12 amended: exactly one call is made and the record is unchanged;
\* restoration ends with loading = FALSE and user = {id: I, email: the
\* stored user_email or ""} unless it was cancelled while the fetch was in
\* flight, and then user and loading are left as they were.
C12_ValidTokenRestores ==
  [][ \A i \in 1..NumUsers :
        C12_Case(i) =>
          /\ rs' = "done" /\ Len(net') = 1
          /\ storage' = storage
          /\ IF cancelled
             THEN loading' = loading /\ user' = user
             ELSE loading' = FALSE /\ user' = AuthUser(Str(IdPool[i]), CachedEmail) ]_vars

\* a stored token with no cached email restored the profile's id and ""
C12_Witness ==
  /\ RestorationEnded /\ ~cancelled
  /\ Len(net) = 1 /\ net[1].resp \in Success(ProfileBody(1))
  /\ storage = [access_token |-> Str("A0"), refresh_token |-> Null, user_email |-> Null]
  /\ loading = FALSE
  /\ user = AuthUser(Str(IdPool[1]), Str(""))

\* the header the stored access token calls for: none without a token
HeaderFor(st) ==
  IF st["access_token"] = Null THEN Undefined ELSE Bearer(st["access_token"].v)

C14_RetryCarriesNewToken ==
  \A j \in 1..NumTokens :
    (Len(net) = 3 /\ net[2].resp \in Success(RefreshBody(j)))
      => net[3].authorization = Bearer(AccessPool[j])

\* C18: a 401 answering a call made outside session restoration (signIn,
\* signUp, signOut, a resource call) starts no refresh call and no retry and
\* is surfaced to the caller as the rejection with status 401, except that
\* signOut swallows it; apart from signOut's clearing, the Credential
\* Record and the user are left as they were.
C18_No401RecoveryOutsideRestoration ==
  [][ (op.state = "pending" /\ op'.state # "pending" /\ Is401(op'.call.resp))
        => /\ net' = net
           /\ op'.call = [op.call EXCEPT !.resp = op'.call.resp]
           /\ IF op.name = "signOut"
              THEN /\ op'.state = "resolved"
                   /\ storage' = EmptyRecord /\ user' = Null
              ELSE /\ op'.state = "rejected"
                   /\ op'.err.name = "ApiError" /\ op'.err.status = 401
                   /\ storage' = storage /\ user' = user ]_vars

C18_Witness ==
  /\ op.name = "resource" /\ op.state = "rejected"
  /\ Is401(op.call.resp)
  /\ op.err.name = "ApiError" /\ op.err.status = 401
  /\ storage["access_token"] # Null /\ storage["refresh_token"] # Null
  /\ user # Null

\* the call apiClient has settled came back with resp
ApiSettledWith(resp) == api.phase = "settled" /\ api.call.resp = resp

\* C15: every invocation of apiClient resolves with a decoded value or
\* rejects with an ApiError; no other exception kind escapes it, whatever
\* the response (unparseable success body, success body null, error body
\* null or not an object, transport failure).
C15_OnlyApiErrorEscapes ==
  api.phase = "settled" => (api.result.ok \/ api.result.err.name = "ApiError")

\* the error body declares error.code and error.message
Declares(resp) ==
  /\ resp.parses /\ resp.json.t = "obj"
  /\ Get(resp.json, K_error).t = "obj"
  /\ Get(Get(resp.json, K_error), K_code) # Undefined
  /\ Get(Get(resp.json, K_error), K_message) # Undefined
\* the error body cannot be parsed or declares no error
DeclaresNothing(resp) ==
  \/ ~resp.parses
  \/ resp.json.t # "obj"
  \/ Get(resp.json, K_error) \in {Undefined, Null}

\* C16: a response with a status outside the success range makes apiClient
\* reject with an ApiError carrying the HTTP status; code and message are
\* the declared error.code and error.message when the body declares them,
\* and "UNKNOWN" and the reason phrase when the body cannot be parsed or
\* declares no error.
C16_ErrorStatusBecomesApiError ==
  \A resp \in WireResponses :
    (ApiSettledWith(resp) /\ resp.kind = "http" /\ resp.status \notin 200..299)
      => /\ ~api.result.ok
         /\ api.result.err.name = "ApiError"
         /\ api.result.err.status = resp.status
         /\ Declares(resp)
              => /\ api.result.err.code = Get(Get(resp.json, K_error), K_code)
                 /\ api.result.err.message = Get(Get(resp.json, K_error), K_message)
         /\ DeclaresNothing(resp)
              => /\ api.result.err.code = Str("UNKNOWN")
                 /\ api.result.err.message = Str(resp.statusText)

\* C17: when fetch itself fails, apiClient rejects with an ApiError with
\* status 0 and code "NETWORK_ERROR", and reads no response.
C17_NetworkFailure ==
  ApiSettledWith(FetchFailed)
    => /\ ~api.result.ok
       /\ api.result.err.name = "ApiError"
       /\ api.result.err.status = 0
       /\ api.result.err.code = Str("NETWORK_ERROR")

C17_Witness ==
  /\ ApiSettledWith(FetchFailed)
  /\ api.call.method = "POST" /\ api.call.body # Undefined
  /\ api.result = Rejected(ApiError(0, Str("NETWORK_ERROR"), Str("Unable to connect to server")))

\* built only from plain objects, arrays and scalars
RECURSIVE IsPlain(_)
IsPlain(v) ==
  IF v.t \in {"arr", "obj"}
  THEN \A i \in 1..Len(v.e) : IsPlain(IF v.t = "arr" THEN v.e[i] ELSE v.e[i][2])
  ELSE v.t \in {"str", "bool", "null", "undefined"}

\* C19: for every structure x of plain objects, arrays and scalars,
\* keysToSnake(keysToCamel(x)) = keysToSnake(x) and
\* keysToCamel(keysToSnake(x)) = keysToCamel(x), for every key string,
\* colliding keys included.
C19_SecondConversionAbsorbsFirst ==
  IsPlain(codec.x)
    => /\ codec.path = <<"camel", "snake">> => codec.y = keysToSnake(codec.x)
       /\ codec.path = <<"snake", "camel">> => codec.y = keysToCamel(codec.x)

\* "_b" and "B" are distinct keys that collide under either conversion
C19_Witness ==
  /\ codec.path = <<"camel", "snake">>
  /\ codec.x = Obj(<< <<<<"_","b">>, Str("v1")>>, <<<<"B">>, Bool(TRUE)>> >>)
  /\ codec.y = Obj(<< <<<<"_","b">>, Bool(TRUE)>> >>)

\* no underscore followed by a lowercase letter
IsCamelKey(k) == ~\E i \in 1..(Len(k) - 1) : k[i] = "_" /\ IsLower(k[i + 1])
RECURSIVE AllKeysCamel(_)
AllKeysCamel(v) ==
  IF v.t = "arr" THEN \A i \in 1..Len(v.e) : AllKeysCamel(v.e[i])
  ELSE IF v.t = "obj"
       THEN \A i \in 1..Len(v.e) : IsCamelKey(v.e[i][1]) /\ AllKeysCamel(v.e[i][2])
       ELSE TRUE

\* C20: for an object whose keys are all camelCase already,
\* keysToCamel(keysToSnake(x)) is x itself, at every nesting depth.
C20_CamelRoundTrip ==
  (IsPlain(codec.x) /\ AllKeysCamel(codec.x) /\ codec.path = <<"snake", "camel">>)
    => codec.y = codec.x

C20_Witness ==
  /\ codec.path = <<"snake", "camel">>
  /\ codec.x = Arr(<< Obj(<< <<<<"b","B">>, Str("v1")>> >>), Str("s") >>)
  /\ codec.y = codec.x

\* the JSON body has a top-level data field
HasDataField(json) ==
  json.t = "obj" /\ \E i \in 1..Len(json.e) : json.e[i][1] = K_data
\* the content a success body carries: its data field, or the whole body
ContentOf(json) ==
  IF HasDataField(json)
  THEN json.e[CHOOSE i \in 1..Len(json.e) : json.e[i][1] = K_data][2]
  ELSE json

\* C21: on a non-204 success apiClient resolves with the key-converted
\* content of the body's top-level data field when the body has one, and
\* with the key-converted whole body otherwise.
C21_DecodesDataOrWholeBody ==
  \A resp \in WireResponses :
    (ApiSettledWith(resp) /\ resp.kind = "http" /\ resp.status \in 200..299
       /\ resp.status # 204 /\ resp.parses)
      => api.result = Resolved(keysToCamel(ContentOf(resp.json)))

\* C22: on a 204 response apiClient resolves with undefined and does not
\* read or parse the body, whatever the body is.
C22_NoContentResolvesUndefined ==
  \A resp \in WireResponses :
    (ApiSettledWith(resp) /\ resp.kind = "http" /\ resp.status = 204)
      => api.result = Resolved(Undefined)

C22_Witness ==
  /\ ApiSettledWith(HttpNoJson(204, StatusText(204)))
  /\ api.call.method = "DELETE"
  /\ api.result = Resolved(Undefined)

\* C23: no step of a session operation removes one of access_token,
\* refresh_token, user_email without removing the other two in the same
\* step: on every logout and failed-refresh path the three keys go from
\* their prior values to all absent together.
C23_KeysClearedTogether ==
  [][ (\E k \in StorageKeys : storage[k] # Null /\ storage'[k] = Null)
        => storage' = EmptyRecord ]_vars

\* a failed refresh has just cleared a record that held all three keys
C23_Witness ==
  /\ RestorationEnded /\ Len(net) = 2
  /\ net[1].authorization = Bearer("A0")
  /\ Get(net[2].body, K_refresh_token) = Str("R0")
  /\ Fails(net[2].resp)
  /\ email = Str("z@b.com")
  /\ storage = EmptyRecord

\* C24: signUp has the contract of signIn: for the same server reply it
\* leaves the same Credential Record and the same user and settles the same
\* way, and its request differs from signIn's only in the endpoint.
C24_SignUpLikeSignIn ==
  [][ /\ (op'.name = "signUp" /\ op'.state = "pending" /\ op' # op)
         => \E i \in 1..NumUsers :
              LET login == Call("signIn", LoginEndpoint, Credentials(EmailPool[i], "secret"))
              IN /\ op'.call = [login.call EXCEPT !.owner = "signUp",
                                                   !.endpoint = RegisterEndpoint]
                 /\ LoginEndpoint # RegisterEndpoint
      /\ (op.name = "signUp" /\ op.state = "pending" /\ op'.state # "pending")
         => LET eff == signInEffects(apiClient(op'.call.resp), storage, user)
            IN /\ storage' = eff.storage
               /\ user' = eff.user
               /\ op'.state = IF eff.settles.ok THEN "resolved" ELSE "rejected"
               /\ op'.err = IF eff.settles.ok THEN Undefined ELSE eff.settles.err ]_vars

C24_Witness ==
  /\ op.name = "signUp" /\ op.state = "resolved"
  /\ op.call.endpoint = RegisterEndpoint
  /\ op.call.resp \in Success(LoginBody(1, 1))
  /\ user = Identity(1)
  /\ storage["user_email"] = Str(EmailPool[1])

\* neither a plain object nor an array
IsLeaf(v) == v.t \notin {"obj", "arr"}
\* v with the walk applied to plain objects and arrays only
RECURSIVE LeavesKept(_, _)
LeavesKept(x, y) ==
  IF x.t = "arr"
  THEN y.t = "arr" /\ Len(y.e) = Len(x.e)
         /\ \A i \in 1..Len(x.e) : LeavesKept(x.e[i], y.e[i])
  ELSE IF x.t = "obj"
  THEN y.t = "obj" /\ Len(y.e) = Len(x.e)
         /\ \A i \in 1..Len(x.e) : LeavesKept(x.e[i][2], y.e[i][2])
  ELSE y = x

\* C25: keysToCamel and keysToSnake rewrite keys only inside plain objects
\* and arrays; every other value (scalar, null, date, any other non-plain
\* object) comes back unchanged as a leaf, wherever it sits.
C25_OnlyPlainContainersWalked ==
  (Len(codec.path) = 1 /\ ~IsPlain(codec.x)) => LeavesKept(codec.x, codec.y)

\* C27: apiClient never writes to the Credential Record or to Session
\* State: across any call, whatever its outcome, access_token,
\* refresh_token, user_email, user and loading are left as they were.
C27_TransportWritesNothing ==
  [][ api' # api
        => storage' = storage /\ user' = user /\ loading' = loading ]_vars

C27_Witness ==
  /\ api.phase = "settled" /\ Is401(api.call.resp)
  /\ api.call.authorization = Bearer("A0")
  /\ storage = [access_token |-> Str("A0"), refresh_token |-> Str("R0"),
                user_email |-> Str("z@b.com")]

\* C26: each invocation of apiClient performs exactly one HTTP exchange
\* whatever its outcome and never retries; concurrent invocations for the
\* same endpoint perform independent exchanges, each settling with the
\* answer to its own exchange.
C26_OneExchangePerInvocation ==
  /\ Len(calls.wire) = Len(calls.inv)
  /\ \A i \in 1..Len(calls.inv) :
       /\ calls.inv[i].exchange = i
       /\ calls.inv[i].phase = "settled"
            <=> calls.wire[i].resp # Pending
       /\ calls.inv[i].phase = "settled"
            => calls.inv[i].result = apiClient(calls.wire[i].resp)

\* two invocations in flight together; the second has its answer, a
\* success, while the first still waits; then the first fails
C26_Witness ==
  /\ Len(calls.inv) = 2 /\ Len(calls.wire) = 2
  /\ calls.wire[1].endpoint = calls.wire[2].endpoint
  /\ calls.wire[1].resp = FetchFailed
  /\ calls.wire[2].resp \in Success(PortfoliosBody)
  /\ ~calls.inv[1].result.ok /\ calls.inv[2].result.ok

\* C30: signOut changes neither the Credential Record nor user until its
\* logout call has settled: the request is issued first, carrying the
\* bearer token stored then, and the three keys and user are cleared only
\* in the step in which that call resolves or rejects.
C30_SignOutClearsAfterSettle ==
  [][ /\ (op'.name = "signOut" /\ op'.state = "pending" /\ op' # op)
         => /\ storage' = storage /\ user' = user
            /\ op'.call.resp = Pending
            /\ op'.call.authorization = HeaderFor(storage)
      /\ (op.name = "signOut" /\ op.state = "pending")
         => \/ storage' = storage /\ user' = user /\ op' = op
            \/ /\ op'.call.resp # Pending /\ op'.state = "resolved"
               /\ storage' = EmptyRecord /\ user' = Null ]_vars

\* the logout request is on its way with the token; nothing is cleared yet
C30_Witness ==
  /\ op.name = "signOut" /\ op.state = "pending" /\ op.call.resp = Pending
  /\ op.call.authorization = Bearer("A0")
  /\ storage["access_token"] = Str("A0")
  /\ user # Null

\* C29: the cancelled flag guards only Session State. A restoration
\* cancelled while its first profile fetch is in flight still runs its
\* remaining steps: on a 401 it issues the refresh call when a refresh token
\* is stored, persists the tokens the refresh returns, and removes all three
\* keys when there is no refresh token or the refresh or the retry fails;
\* user and loading stay as they were.
C29_CancelledRestorationStillWrites ==
  [][ cancelledAt = "profile1"
        => /\ user' = user /\ loading' = loading
           /\ (rs = "profile1" /\ rs' # "profile1" /\ Is401(net'[1].resp))
                => IF storage["refresh_token"] # Null
                   THEN /\ rs' = "refresh" /\ Len(net') = 2
                        /\ net'[2].endpoint = RefreshEndpoint
                        /\ storage' = storage
                   ELSE rs' = "done" /\ Len(net') = 1 /\ storage' = EmptyRecord
           /\ (rs = "refresh" /\ rs' # "refresh")
                => /\ \A j \in 1..NumTokens :
                        net'[2].resp \in Success(RefreshBody(j))
                          => /\ storage'["access_token"] = Str(AccessPool[j])
                             /\ storage'["refresh_token"] = Str(RefreshPool[j])
                   /\ Fails(net'[2].resp) => storage' = EmptyRecord
           /\ (rs = "profile2" /\ rs' # "profile2" /\ Fails(net'[3].resp))
                => storage' = EmptyRecord ]_vars

\* signIn or signUp has completed successfully
SignedIn == op.name \in {"signIn", "signUp"} /\ op.state = "resolved"

\* C28: when a signIn (or signUp) completes successfully while a
\* restoration network call is in flight, the rest of the restoration
\* neither clears nor overwrites what signIn wrote: the Credential Record
\* and user stay those of signIn, and once both have finished user is
\* non-null exactly when an access token is stored.
C28_RestorationYieldsToSignIn ==
  [][ (RestoreInFlight /\ SignedIn)
        => /\ storage' = storage
           /\ user' = user
           /\ rs' = "done" => (user' # Null <=> storage'["access_token"] # Null) ]_vars
====
